---- MODULE Spec2Model ----
(***************************************************************************)
(* Contact-form mail relay (src/server.js).  The file holds two variants   *)
(* of the server: the "simple" one (lines 1-83: cors, express.json, a      *)
(* handler with a truthiness check) and the "validated" one (lines 84-197: *)
(* sanitize, cors, express.json, apiLimiter, express-validator chains,     *)
(* handler).  A request travels through the middleware of its variant one  *)
(* event-loop callback at a time; requests in flight interleave between    *)
(* callbacks and while one awaits transporter.sendMail.                    *)
(*                                                                         *)
(* Strings are sequences of tokens: one token per character of a request   *)
(* field, one token per literal piece of a template.                       *)
(***************************************************************************)
EXTENDS Integers, Sequences, FiniteSets, TLC

\* ---------------------------------------------------------------- bounds
\* requests ever received in the single-request specification
MaxRequests == 3
\* requests in flight at once in the concurrent specifications
MaxInFlight == 2
\* limiter hits after which no further request is issued
MaxHits == 12
\* clock advances, of half a limiter window each
MaxTicks == 3

\* ------------------------------------------------------------- constants
\* rateLimit({windowMs: 15 * 60 * 1000, max: 10, message: ...})
windowMs == 15 * 60 * 1000
max == 10
limiterMessage == "Too many requests, please try again after 15 minutes."
TickMs == windowMs \div 2

\* process.env as loaded by dotenv.config()
\* CORS = "a, b": two origins, the second written after a space
CORS == <<"a", ",", " ", "b">>
EMAIL_USER == <<"operator">>
EMAIL_TO == <<"recipient">>

\* ---------------------------------------------------------------- values
\* a JavaScript value that is a string or undefined
Undefined == [defined |-> FALSE, str |-> <<>>]
Str(s) == [defined |-> TRUE, str |-> s]

Whitespace == {" "}
UpperCase == {"A", "B"}
LowerCase == {"a", "b", "c", "o", "h", "i"}
Letters == UpperCase \cup LowerCase
\* characters of an unquoted local part besides letters
LocalSymbols == {"+", "-", "_"}

\* ------------------------------------------------------ string functions
RECURSIVE TrimLeft(_)
TrimLeft(s) ==
  IF s = <<>> THEN s
  ELSE IF Head(s) \in Whitespace THEN TrimLeft(Tail(s)) ELSE s

RECURSIVE TrimRight(_)
TrimRight(s) ==
  IF s = <<>> THEN s
  ELSE IF s[Len(s)] \in Whitespace THEN TrimRight(SubSeq(s, 1, Len(s) - 1)) ELSE s

\* String.prototype.trim / validator's trim()
Trim(s) == TrimRight(TrimLeft(s))

\* String.prototype.split(sep), sep a single character
RECURSIVE Split(_, _)
Split(s, sep) ==
  IF \A i \in 1..Len(s) : s[i] # sep THEN <<s>>
  ELSE LET k == CHOOSE i \in 1..Len(s) : s[i] = sep /\ \A j \in 1..(i - 1) : s[j] # sep
       IN  <<SubSeq(s, 1, k - 1)>> \o Split(SubSeq(s, k + 1, Len(s)), sep)

ToLower(c) == IF c = "A" THEN "a" ELSE IF c = "B" THEN "b" ELSE c
LowerString(s) == [i \in 1..Len(s) |-> ToLower(s[i])]

\* s has sub as a contiguous substring (String.prototype.includes)
Contains(s, sub) ==
  \E i \in 0..(Len(s) - Len(sub)) : SubSeq(s, i + 1, i + Len(sub)) = sub

\* validator.isEmail with its default options: one local part, "@", a fully
\* qualified domain whose last label is alphabetic and at least two long
LocalPartOk(l) ==
  /\ l # <<>>
  /\ \A i \in 1..Len(l) : l[i] \in Letters \cup LocalSymbols \cup {"."}
  /\ l[1] # "." /\ l[Len(l)] # "."
  /\ \A i \in 1..(Len(l) - 1) : ~(l[i] = "." /\ l[i + 1] = ".")

DomainOk(d) ==
  LET labels == Split(d, ".")
      tld == labels[Len(labels)]
  IN  /\ Len(labels) >= 2
      /\ \A i \in 1..Len(labels) :
           /\ labels[i] # <<>>
           /\ \A j \in 1..Len(labels[i]) : labels[i][j] \in Letters \cup {"-"}
           /\ labels[i][1] # "-" /\ labels[i][Len(labels[i])] # "-"
      /\ Len(tld) >= 2
      /\ \A j \in 1..Len(tld) : tld[j] \in Letters

IsEmail(s) ==
  LET ats == {i \in 1..Len(s) : s[i] = "@"}
  IN  /\ Cardinality(ats) = 1
      /\ LET k == CHOOSE i \in ats : TRUE
         IN  /\ LocalPartOk(SubSeq(s, 1, k - 1))
             /\ DomainOk(SubSeq(s, k + 1, Len(s)))

\* validator.normalizeEmail with its default options (all_lowercase: true);
\* the provider-specific rewrites apply to gmail, outlook, yahoo and icloud
\* domains only
NormalizeEmail(s) == LowerString(s)

\* what the sanitize middleware does to one string: HTML metacharacters are
\* replaced by their entities
EscapeChar(c) ==
  IF c = "<" THEN "&lt;" ELSE IF c = ">" THEN "&gt;" ELSE IF c = "&" THEN "&amp;" ELSE c
EscapeString(s) == [i \in 1..Len(s) |-> EscapeChar(s[i])]
Escape(v) == IF v.defined THEN Str(EscapeString(v.str)) ELSE v

\* `${v}` in a template literal
Interpolate(v) == IF v.defined THEN v.str ELSE <<"undefined">>

\* !v for a string or undefined
Falsy(v) == ~v.defined \/ v.str = <<>>

\* ----------------------------------------------------------------- state
VARIABLES
  variant,          \* which server of src/server.js is running
  serving,          \* app.listen has been called and the process is up
  verifyState,      \* transporter.verify: "pending", "ok" or "failed"
  verifyLog,        \* what the verify callback logged
  clock,            \* Date.now(), in ms since the process started
  hits,             \* limiter store: totalHits of each identity
  resetTime,        \* limiter store: when each identity's window ends
  req,              \* the requests in flight, by connection slot
  passTimes,        \* per identity, the times of its latest max + 1 passes of the limiter
  passedInWindow,   \* per identity, passes of the limiter in the current window
  runsInWindow      \* per identity, runs of the limiter in the current window

vars == <<variant, serving, verifyState, verifyLog, clock, hits, resetTime, req,
                 passTimes, passedInWindow, runsInWindow>>

Variants == {"simple", "validated"}
Ips == {"ip1", "ip2"}
Slots == 1..MaxInFlight
TransportErrors == {"EAUTH", "ETIMEDOUT"}

NoMail == [from |-> <<>>, replyTo |-> Undefined, to |-> <<>>, subject |-> <<>>,
           text |-> <<>>, html |-> <<>>]
NoResponse == [message |-> "", error |-> "none", errors |-> {}]
EmptyBody == [name |-> Undefined, email |-> Undefined, message |-> Undefined]
\* req.body before express.json() has run
UnparsedBody == [parsed |-> FALSE, name |-> Undefined, email |-> Undefined,
                 message |-> Undefined]

IdleReq ==
  [pc |-> "idle", origin |-> Undefined, ip |-> "none", raw |-> EmptyBody,
   body |-> UnparsedBody, errors |-> {}, mail |-> NoMail, status |-> 0,
   resBody |-> NoResponse, corsPassed |-> FALSE, limiterRan |-> FALSE, hitsSeen |-> 0,
   windowEnd |-> 0,
   validatorsRan |-> FALSE, passed |-> FALSE, sendCalls |-> 0, txError |-> "none", logged |-> "none"]

\* ------------------------------------------------------- request inputs
Origins == {Undefined, Str(<<"a">>), Str(<<"b">>), Str(<<"c">>)}
Names == {Undefined, Str(<<>>), Str(<<" ">>), Str(<<" ", "A", " ">>), Str(<<"<", "b", ">">>)}
Emails == {Undefined, Str(<<" ">>), Str(<<"a">>), Str(<<"a", "@", "b">>),
           Str(<<"A", "@", "B", ".", "c", "o">>)}
Messages == {Undefined, Str(<<" ">>), Str(<<"h", "i">>), Str(<<"<", "i", ">">>)}
Bodies == [name : Names, email : Emails, message : Messages]

ValidBody == [name |-> Str(<<"A">>), email |-> Str(<<"a", "@", "b", ".", "c", "o">>),
              message |-> Str(<<"h", "i">>)]
BlankBody == [name |-> Str(<<" ">>), email |-> Str(<<"a">>), message |-> Undefined]
\* a good submission, a bad one, and a good one from a foreign page
ServingInputs ==
  {[origin |-> Undefined, body |-> ValidBody], [origin |-> Undefined, body |-> BlankBody],
   [origin |-> Str(<<"c">>), body |-> ValidBody]}

\* ---------------------------------------------------------- origin gate
\* simple variant: process.env.CORS.split(",")
SimpleAllowedOrigins ==
  LET parts == Split(CORS, ",") IN {parts[i] : i \in 1..Len(parts)}

\* validated variant: process.env.CORS.split(",").map(o => o.trim())
ValidatedAllowedOrigins ==
  LET parts == Split(CORS, ",") IN {Trim(parts[i]) : i \in 1..Len(parts)}

allowedOrigins == IF variant = "simple" THEN SimpleAllowedOrigins ELSE ValidatedAllowedOrigins

\* the cors origin callback: callback(null, true) or callback(new Error(...))
OriginAllowedAlways(origin) == TRUE
OriginAllowed(origin) == ~origin.defined \/ origin.str \in allowedOrigins

\* -------------------------------------------------------------- helpers
SetReq(r, rec) == req' = [req EXCEPT ![r] = rec]

\* res.status(code).json(body) / res.send: the response leaves, the request is over
Respond(q, code, resBody) == [q EXCEPT !.pc = "responded", !.status = code, !.resBody = resBody]

\* Express's default error handler, reached by next(err)
DefaultErrorResponse(q, text) ==
  Respond(q, 500, [message |-> text, error |-> "none", errors |-> {}])

\* the stage after which the cors middleware of the running variant is due
BeforeCors == IF variant = "simple" THEN "received" ELSE "sanitized"
\* the stage after which the route handler of the running variant is due
BeforeHandler == IF variant = "simple" THEN "parsed" ELSE "validated"

\* request r is due for the callback that follows stage, in a live process
AtStage(r, stage) == serving /\ req[r].pc = stage

\* ------------------------------------------------------------- start-up
Init ==
  /\ variant \in Variants
  /\ serving = TRUE
  /\ verifyState = "pending"
  /\ verifyLog = "none"
  /\ clock = 0
  /\ hits = [i \in Ips |-> 0]
  /\ resetTime = [i \in Ips |-> 0]
  /\ req = [r \in Slots |-> IdleReq]
  /\ passTimes = [i \in Ips |-> <<>>]
  /\ passedInWindow = [i \in Ips |-> 0]
  /\ runsInWindow = [i \in Ips |-> 0]

\* a verify callback that throws on failure and takes the process down
VerifyCallbackFatal ==
  /\ verifyState = "pending"
  /\ \E ok \in BOOLEAN :
       /\ verifyState' = IF ok THEN "ok" ELSE "failed"
       /\ verifyLog' = IF ok THEN "ready" ELSE "transporter error"
       /\ serving' = ok
  /\ UNCHANGED <<variant, clock, hits, resetTime, req, passTimes, passedInWindow,
                 runsInWindow>>

\* transporter.verify((error, success) => ...): logs, nothing else
VerifyCallback ==
  /\ verifyState = "pending"
  /\ \E ok \in BOOLEAN :
       /\ verifyState' = IF ok THEN "ok" ELSE "failed"
       /\ verifyLog' = IF ok THEN "ready" ELSE "transporter error"
  /\ UNCHANGED <<variant, serving, clock, hits, resetTime, req, passTimes,
                 passedInWindow, runsInWindow>>

\* time passes
Tick ==
  /\ serving
  /\ clock < MaxTicks * TickMs
  /\ clock' = clock + TickMs
  /\ UNCHANGED <<variant, serving, verifyState, verifyLog, hits, resetTime, req,
                 passTimes, passedInWindow, runsInWindow>>

\* ----------------------------------------------------- the request path
\* POST /connect arrives on a free connection
Receive(r, inputs, ips, cap) ==
  /\ AtStage(r, "idle")
  /\ \E in \in inputs, i \in ips :
       /\ hits[i] < cap
       /\ SetReq(r, [IdleReq EXCEPT !.pc = "received", !.origin = in.origin, !.ip = i,
                                   !.raw = in.body])
  /\ UNCHANGED <<variant, serving, verifyState, verifyLog, clock, hits, resetTime,
                 passTimes, passedInWindow, runsInWindow>>

\* app.use(sanitize({sanitize: {body: ["name", "email", "message"]}})): the
\* fields of req.body that exist are escaped.  It is registered before
\* express.json(), so req.body is still unparsed when it runs.
SanitizeBody(b) ==
  IF b.parsed
  THEN [b EXCEPT !.name = Escape(b.name), !.email = Escape(b.email),
                 !.message = Escape(b.message)]
  ELSE b

SanitizeMiddleware(r) ==
  /\ variant = "validated"
  /\ AtStage(r, "received")
  /\ SetReq(r, [req[r] EXCEPT !.pc = "sanitized", !.body = SanitizeBody(req[r].body)])
  /\ UNCHANGED <<variant, serving, verifyState, verifyLog, clock, hits, resetTime,
                 passTimes, passedInWindow, runsInWindow>>

\* app.use(cors({origin: (origin, callback) => ...}))
CorsMiddleware(r) ==
  /\ AtStage(r, BeforeCors)
  /\ SetReq(r, IF OriginAllowed(req[r].origin)
               THEN [req[r] EXCEPT !.pc = "corsOk", !.corsPassed = TRUE]
               ELSE DefaultErrorResponse(req[r], "Not allowed by CORS"))
  /\ UNCHANGED <<variant, serving, verifyState, verifyLog, clock, hits, resetTime,
                 passTimes, passedInWindow, runsInWindow>>

\* app.use(express.json()): req.body becomes the parsed JSON object
JsonMiddleware(r) ==
  /\ AtStage(r, "corsOk")
  /\ SetReq(r, [req[r] EXCEPT !.pc = "parsed",
                              !.body = [parsed |-> TRUE, name |-> req[r].raw.name,
                                        email |-> req[r].raw.email,
                                        message |-> req[r].raw.message]])
  /\ UNCHANGED <<variant, serving, verifyState, verifyLog, clock, hits, resetTime,
                 passTimes, passedInWindow, runsInWindow>>

\* ---------------------------------------------------------- the limiter
\* the store's window of identity i is over (or was never opened)
WindowExpired(i) == resetTime[i] <= clock

\* totalHits++ of the store's increment
IncrementLost(n) == n
Increment(n) == n + 1

\* the latest max + 1 times at which a request of one identity passed
Remember(times, t) ==
  LET all == Append(times, t)
  IN  IF Len(all) > max + 1 THEN Tail(all) ELSE all

\* the comparison of the middleware: totalHits > max
OverLimitOffByOne(total) == total > max + 1
OverLimit(total) == total > max

\* apiLimiter, first half: the store's increment(key), one synchronous step that
\* opens a new window when the old one is over, counts the request and hands
\* the request its own totalHits and the window's resetTime
LimiterIncrement(r) ==
  /\ variant = "validated"
  /\ AtStage(r, "parsed")
  /\ LET i == req[r].ip
         fresh == WindowExpired(i)
         total == Increment(IF fresh THEN 0 ELSE hits[i])
         pass == ~OverLimit(total)
     IN  /\ hits' = [hits EXCEPT ![i] = total]
         /\ resetTime' = [resetTime EXCEPT ![i] = IF fresh THEN clock + windowMs ELSE @]
         /\ runsInWindow' = [runsInWindow EXCEPT ![i] = (IF fresh THEN 0 ELSE @) + 1]
         /\ passedInWindow' = [passedInWindow EXCEPT
                                 ![i] = (IF fresh THEN 0 ELSE @) + (IF pass THEN 1 ELSE 0)]
         /\ passTimes' = [passTimes EXCEPT ![i] = IF pass THEN Remember(@, clock) ELSE @]
         /\ SetReq(r, [req[r] EXCEPT !.pc = "counted", !.limiterRan = TRUE,
                                     !.hitsSeen = total,
                                     !.windowEnd = resetTime'[i]])
  /\ UNCHANGED <<variant, serving, verifyState, verifyLog, clock>>

\* apiLimiter, second half, after the await: next() or the 429 response,
\* decided on the totalHits the increment returned to this request (a request
\* let through has no further use for the numbers)
LimiterCompare(r) ==
  /\ AtStage(r, "counted")
  /\ SetReq(r, IF OverLimit(req[r].hitsSeen)
               THEN Respond(req[r], 429, [message |-> limiterMessage, error |-> "none",
                                          errors |-> {}])
               ELSE [req[r] EXCEPT !.pc = "limited", !.hitsSeen = 0, !.windowEnd = 0])
  /\ UNCHANGED <<variant, serving, verifyState, verifyLog, clock, hits, resetTime,
                 passTimes, passedInWindow, runsInWindow>>

\* ------------------------------------------------------- the validators
\* toString of express-validator: undefined reads as the empty string
ToStr(v) == IF v.defined THEN v.str ELSE <<>>

\* check("name").trim().notEmpty(), check("email").isEmail().normalizeEmail(),
\* check("message").trim().notEmpty(): the failures
ValidationErrors(b) ==
  (IF Trim(ToStr(b.name)) = <<>>
   THEN {[path |-> "name", msg |-> "Name is required."]} ELSE {})
  \cup (IF ~IsEmail(ToStr(b.email))
        THEN {[path |-> "email", msg |-> "A valid email is required."]} ELSE {})
  \cup (IF Trim(ToStr(b.message)) = <<>>
        THEN {[path |-> "message", msg |-> "Message is required."]} ELSE {})

\* the sanitizers of the chains write their result back to req.body (what is
\* left of an invalid address is read by nothing: the handler answers 400)
SanitizedByChains(b) ==
  [b EXCEPT !.name = Str(Trim(ToStr(b.name))),
            !.email = IF IsEmail(ToStr(b.email)) THEN Str(NormalizeEmail(b.email.str)) ELSE @,
            !.message = Str(Trim(ToStr(b.message)))]

ValidationChains(r) ==
  /\ variant = "validated"
  /\ AtStage(r, "limited")
  /\ SetReq(r, [req[r] EXCEPT !.pc = "validated", !.validatorsRan = TRUE,
                              !.errors = ValidationErrors(req[r].body),
                              !.body = SanitizedByChains(req[r].body)])
  /\ UNCHANGED <<variant, serving, verifyState, verifyLog, clock, hits, resetTime,
                 passTimes, passedInWindow, runsInWindow>>

\* ----------------------------------------------------------- mail relay
SubjectPrefix == <<"New Contact Form Submission from ">>

\* simple variant, lines 58-64
SimpleMailOptions(b) ==
  [from |-> EMAIL_USER,
   replyTo |-> b.email,
   to |-> EMAIL_TO,
   subject |-> SubjectPrefix \o Interpolate(b.name),
   text |-> <<"Name: ">> \o Interpolate(b.name) \o <<"\nEmail: ">> \o Interpolate(b.email)
            \o <<"\nMessage: ">> \o Interpolate(b.message),
   html |-> <<>>]

HtmlBody(name, email, message) ==
  <<"\n        <p><strong>Name:</strong> ">> \o name
  \o <<"</p>\n        <p><strong>Email:</strong> ">> \o email
  \o <<"</p>\n        <p><strong>Message:</strong> ">> \o message
  \o <<"</p>\n      ">>

\* validated variant, lines 169-179
ValidatedMailOptionsReplyToOperator(b) ==
  [from |-> <<"\"">> \o Interpolate(b.name) \o <<"\" <">> \o EMAIL_USER \o <<">">>,
   replyTo |-> Str(EMAIL_USER),
   to |-> EMAIL_TO,
   subject |-> SubjectPrefix,
   text |-> <<>>,
   html |-> HtmlBody(Interpolate(b.name), Interpolate(b.email), Interpolate(b.message))]
ValidatedMailOptions(b) ==
  [from |-> <<"\"">> \o Interpolate(b.name) \o <<"\" <">> \o EMAIL_USER \o <<">">>,
   replyTo |-> b.email,
   to |-> EMAIL_TO,
   subject |-> SubjectPrefix \o Interpolate(b.name),
   text |-> <<>>,
   html |-> HtmlBody(Interpolate(b.name), Interpolate(b.email), Interpolate(b.message))]

\* await transporter.sendMail(mailOptions): the call is made, the handler suspends
Dispatch(q, mail) ==
  [q EXCEPT !.pc = "awaiting", !.passed = TRUE, !.mail = mail, !.sendCalls = @ + 1]

\* simple variant, lines 50-67: the truthiness check, then the send
SimpleMissing(b) == Falsy(b.name) \/ Falsy(b.email) \/ Falsy(b.message)

ConnectSimple(r) ==
  /\ variant = "simple"
  /\ AtStage(r, "parsed")
  /\ SetReq(r, IF SimpleMissing(req[r].body)
               THEN Respond([req[r] EXCEPT !.logged = "validation failed"], 400,
                            [message |-> "All fields are required", error |-> "none",
                             errors |-> {}])
               ELSE Dispatch(req[r], SimpleMailOptions(req[r].body)))
  /\ UNCHANGED <<variant, serving, verifyState, verifyLog, clock, hits, resetTime,
                 passTimes, passedInWindow, runsInWindow>>

\* validated variant, lines 160-182: validationResult(req), then the send
ConnectValidated(r) ==
  /\ variant = "validated"
  /\ AtStage(r, "validated")
  /\ SetReq(r, IF req[r].errors # {}
               THEN Respond(req[r], 400, [message |-> "", error |-> "none",
                                          errors |-> req[r].errors])
               ELSE Dispatch(req[r], ValidatedMailOptions(req[r].body)))
  /\ UNCHANGED <<variant, serving, verifyState, verifyLog, clock, hits, resetTime,
                 passTimes, passedInWindow, runsInWindow>>

\* the promise of sendMail resolves: lines 68-72 and 183-185
SendMailResolved(r) ==
  /\ AtStage(r, "awaiting")
  /\ SetReq(r, Respond([req[r] EXCEPT !.logged = "sent"], 200,
                       [message |-> "Message sent successfully!",
                        error |-> "none", errors |-> {}]))
  /\ UNCHANGED <<variant, serving, verifyState, verifyLog, clock, hits, resetTime,
                 passTimes, passedInWindow, runsInWindow>>

\* the catch blocks: what goes into the 500 response for transport error e
SimpleCatchBody(e) == [message |-> "Error sending message", error |-> e, errors |-> {}]
ValidatedCatchBody(e) ==
  [message |-> "Internal server error. Please try again later.", error |-> "none",
   errors |-> {}]

\* a catch block that sends the message once more instead of answering
SendMailRejectedRetry(r) ==
  /\ AtStage(r, "awaiting")
  /\ SetReq(r, [req[r] EXCEPT !.sendCalls = @ + 1])
  /\ UNCHANGED <<variant, serving, verifyState, verifyLog, clock, hits, resetTime,
                 passTimes, passedInWindow, runsInWindow>>

\* the promise of sendMail rejects: lines 73-76 and 186-189
SendMailRejected(r) ==
  /\ AtStage(r, "awaiting")
  /\ \E e \in TransportErrors :
       SetReq(r, Respond([req[r] EXCEPT !.txError = e, !.logged = e], 500,
                         IF variant = "simple" THEN SimpleCatchBody(e)
                         ELSE ValidatedCatchBody(e)))
  /\ UNCHANGED <<variant, serving, verifyState, verifyLog, clock, hits, resetTime,
                 passTimes, passedInWindow, runsInWindow>>

\* the response is out and the connection is free for the next request
Done(r) ==
  /\ AtStage(r, "responded")
  /\ SetReq(r, IdleReq)
  /\ UNCHANGED <<variant, serving, verifyState, verifyLog, clock, hits, resetTime,
                 passTimes, passedInWindow, runsInWindow>>

\* ------------------------------------------------------- specifications
\* one request at a time, every shape of origin and body, both variants
Next ==
  \E r \in {1} :
    \/ Receive(r, [origin : Origins, body : Bodies], Ips, MaxRequests)
    \/ SanitizeMiddleware(r)
    \/ CorsMiddleware(r)
    \/ JsonMiddleware(r)
    \/ LimiterIncrement(r)
    \/ LimiterCompare(r)
    \/ ValidationChains(r)
    \/ ConnectSimple(r)
    \/ ConnectValidated(r)
    \/ SendMailResolved(r)
    \/ SendMailRejected(r)
    \/ Done(r)

Spec == Init /\ [][Next]_vars

\* the limiter over time: the validated variant, one identity, good
\* submissions one after the other, the clock advancing
InitWindow == Init /\ variant = "validated"

NextWindow ==
  \/ Tick
  \/ \E r \in {1} :
       \/ Receive(r, {[origin |-> Undefined, body |-> ValidBody]}, {"ip1"}, MaxHits)
       \/ SanitizeMiddleware(r)
       \/ CorsMiddleware(r)
       \/ JsonMiddleware(r)
       \/ LimiterIncrement(r)
       \/ LimiterCompare(r)
       \/ ValidationChains(r)
       \/ ConnectValidated(r)
       \/ SendMailResolved(r)
       \/ SendMailRejected(r)
       \/ Done(r)

SpecWindow == InitWindow /\ [][NextWindow]_vars

\* what the event loop does for request r: the callback that is due
Step(r) ==
  \/ SanitizeMiddleware(r)
  \/ CorsMiddleware(r)
  \/ JsonMiddleware(r)
  \/ LimiterIncrement(r)
  \/ LimiterCompare(r)
  \/ ValidationChains(r)
  \/ ConnectSimple(r)
  \/ ConnectValidated(r)
  \/ SendMailResolved(r)
  \/ SendMailRejected(r)

\* requests of one identity in flight together, both variants
NextRace ==
  \E r \in Slots :
    \/ Receive(r, ServingInputs, {"ip1"}, MaxHits)
    \/ Step(r)
    \/ Done(r)

SpecRace == Init /\ [][NextRace]_vars

\* both variants with the start-up verification, one request after the
\* other; the event loop runs every callback that is due, and the transport
\* answers every send with a result or an error
NextServing ==
  \/ VerifyCallback
  \/ \E r \in {1} :
       \/ Receive(r, ServingInputs, {"ip1"}, MaxHits)
       \/ Step(r)
       \/ Done(r)

FairSpec ==
  /\ Init
  /\ [][NextServing]_vars
  /\ WF_vars(VerifyCallback)
  /\ WF_vars(Step(1))

\* ------------------------------------------------------------ properties
\* the request's Origin header is present and not in the allow-list
OriginForeign(q) == q.origin.defined /\ q.origin.str \notin allowedOrigins
\* the request got as far as the route's handler and was answered by it
AnsweredByHandler(q) == q.pc = "responded" /\ q.corsPassed /\ q.status # 429
\* a field of the submission is absent or empty once trimmed
Blank(v) == Trim(ToStr(v)) = <<>>

C3_BlankFieldRejected ==
  \A r \in Slots :
    LET q == req[r]
    IN  (q.pc # "idle" /\ (Blank(q.raw.name) \/ Blank(q.raw.email) \/ Blank(q.raw.message))) =>
          /\ q.sendCalls = 0
          /\ AnsweredByHandler(q) => q.status = 400

\* C4: a submission whose email is non-empty and not a valid address never
\* reaches sendMail, and the handler answers it with 400.
C4_InvalidEmailRejected ==
  \A r \in Slots :
    LET q == req[r]
    IN  (q.pc # "idle" /\ q.raw.email.defined /\ q.raw.email.str # <<>>
         /\ ~IsEmail(q.raw.email.str)) =>
          /\ q.sendCalls = 0
          /\ AnsweredByHandler(q) => q.status = 400

\* the email of the submission as the validation stage of the variant leaves it
ValidatedEmail(q) ==
  IF variant = "validated" THEN Str(NormalizeEmail(q.raw.email.str)) ELSE q.raw.email

\* C5: a request that reached sendMail and whose send succeeded is answered
\* 200 {message: "Message sent successfully!"}; the message handed over has
\* replyTo = the submitter's email as validated, to = EMAIL_TO and a subject
\* that contains the submitter's name.
C5_SuccessResponse ==
  \A r \in Slots :
    LET q == req[r]
    IN  /\ (q.pc = "responded" /\ q.sendCalls > 0 /\ q.txError = "none") =>
             /\ q.status = 200
             /\ q.resBody = [message |-> "Message sent successfully!", error |-> "none",
                             errors |-> {}]
        /\ q.sendCalls > 0 =>
             /\ q.mail.replyTo = ValidatedEmail(q)
             /\ variant = "validated" => IsEmail(q.mail.replyTo.str)
             /\ q.mail.to = EMAIL_TO
             /\ Contains(q.mail.subject, Trim(q.raw.name.str))
             /\ Contains(q.mail.subject, SubjectPrefix)
        /\ q.status = 200 => q.sendCalls > 0

C5_Witness ==
  \E r \in Slots :
    /\ variant = "validated"
    /\ req[r].pc = "responded" /\ req[r].status = 200
    /\ req[r].raw.name = Str(<<" ", "A", " ">>)
    /\ req[r].raw.email = Str(<<"A", "@", "B", ".", "c", "o">>)
    /\ req[r].mail.replyTo = Str(<<"a", "@", "b", ".", "c", "o">>)

\* C6: a request whose send failed is answered 500 with a body that carries
\* nothing of the transport error, and the error is logged.
C6_NoTransportDetail ==
  \A r \in Slots :
    LET q == req[r]
    IN  (q.pc = "responded" /\ q.txError # "none") =>
          /\ q.status = 500
          /\ q.logged = q.txError
          /\ q.resBody.error = "none"

\* C7: a request makes exactly one sendMail call if its handler got past the
\* validation check and none otherwise, whether the send succeeds or fails
\* and whether or not the same message is being sent by another request.
C7_OneDispatchPerRequest ==
  \A r \in Slots :
    LET q == req[r]
    IN  /\ q.sendCalls = (IF q.passed THEN 1 ELSE 0)
        /\ q.passed <=> (q.pc = "awaiting" \/ q.status = 200 \/ q.txError # "none")
        /\ (q.pc = "responded" /\ q.status = 400) => ~q.passed

\* two identical valid submissions, one sent and failed, the other sent
C7_Witness ==
  \E a, b \in Slots :
    /\ a # b /\ req[a].raw = req[b].raw /\ req[a].origin = req[b].origin
    /\ req[a].pc = "responded" /\ req[a].txError # "none" /\ req[a].sendCalls = 1
    /\ req[b].pc = "responded" /\ req[b].status = 200 /\ req[b].sendCalls = 1
    /\ req[a].mail = req[b].mail

\* C10: in every request that reaches sendMail, the subject and the body
\* embed the escaped name, email and message, never the raw values.
C10_SanitizedBeforeRelay ==
  \A r \in Slots :
    LET q == req[r]
        n == EscapeString(Interpolate(q.body.name))
        e == EscapeString(Interpolate(q.body.email))
        m == EscapeString(Interpolate(q.body.message))
    IN  (q.sendCalls > 0 /\ variant = "validated") =>
          /\ q.mail.subject = SubjectPrefix \o n
          /\ q.mail.html = HtmlBody(n, e, m)

C8_AtomicCounter ==
  \A i \in Ips :
    /\ hits[i] = runsInWindow[i]
    /\ passedInWindow[i] = (IF runsInWindow[i] <= max THEN runsInWindow[i] ELSE max)
    /\ \A a, b \in Slots :
         (a # b /\ req[a].ip = i /\ req[b].ip = i
          /\ req[a].hitsSeen > 0 /\ req[b].hitsSeen > 0
          /\ req[a].windowEnd = req[b].windowEnd) =>
            req[a].hitsSeen # req[b].hitsSeen

C8_Witness ==
  \E a, b \in Slots :
    /\ a # b /\ req[a].ip = req[b].ip
    /\ req[a].pc = "awaiting"
    /\ req[b].pc = "counted" /\ req[b].hitsSeen = max + 1
    /\ passedInWindow[req[b].ip] = max

\* C9: the process stays up, whatever the start-up verification and the
\* requests before brought, and every request received is answered.
C9_AlwaysAnswered ==
  (req[1].pc # "idle") ~> (serving /\ req[1].pc = "responded")

\* the verification failed, ten requests were served, the eleventh was turned
\* away, and the twelfth is answered all the same
C9_Witness ==
  /\ verifyState = "failed"
  /\ req[1].pc = "responded" /\ req[1].status = 429 /\ req[1].hitsSeen = max + 2

====
